---------------------------- MODULE Spec2Model ----------------------------
(***************************************************************************)
(* A model of src/src/utils/smalikit.py: the pattern-based method rewriter *)
(* (SmaliKit).  Text is a sequence of characters.  The words ".method",    *)
(* ".end" and "method" are single characters of the alphabet, as is the    *)
(* two-character escape backslash-n; every other character stands for      *)
(* itself, so the footer marker ".end method" is three characters long.    *)
(***************************************************************************)
EXTENDS Integers, Sequences, FiniteSets, TLC

VARIABLES
    args,       \* the SmaliArgs record the rewriter was built from
    pc,         \* position of the process: see the four specifications
    disk,       \* file -> text: the content of every file of the tree
    disk0,      \* the content of every file before the first run
    before,     \* the content of every file when the current run began
    visited,    \* the files handed to patch_file in the current run, in order
    root,       \* what the command was given as path: a file, a directory,
                \* "missing" (a path that does not exist) or "nopath" (none)
    todo,       \* the files walk_and_patch still has to hand to patch_file
    fstate,     \* file -> per-file state of the current run
    reads,      \* file -> number of times the file was opened for reading
    writes,     \* file -> number of times the file was opened for writing
    wrote,      \* file -> the sequence of texts written to it, all runs
    fault,      \* file -> the failure the environment raises for that file
    exitCode,   \* -1 while the process lives, else the status it exited with
    run,        \* number of completed invocations of walk_and_patch
    errors,     \* number of "[ERROR]" lines logged
    log,        \* the lines the current process has printed: what and about what
    content,    \* the text last handed to process_content
    outcome,    \* what process_content last returned and saw
    body0,      \* SpecBody: the body handed to apply_modifications
    st,         \* SpecBody: new_body / is_modified after the steps so far
    step        \* SpecBody: number of primitives of the chain already passed

vars == <<args, pc, disk, disk0, before, visited, root, todo, fstate, reads, writes, wrote,
          fault, exitCode, run, errors, log, content, outcome, body0, st, step>>

---------------------------------------------------------------------------
(* Characters *)

NL == "\n"
SP == " "
DM == ".method"
EM == <<".end", SP, "method">>
LP == "("
RP == ")"
ESC == "\\n"

\* Python's \s on the alphabet of the model
IsSpace(ch) == ch \in {SP, NL}

\* Python's [^\n\r]
NotNewline(ch) == ch # NL

\* the indentation the rewriter writes in front of inserted code
IND == <<SP, SP, SP, SP>>

Min(S) == CHOOSE x \in S : \A y \in S : x <= y
Max(S) == CHOOSE x \in S : \A y \in S : x >= y

---------------------------------------------------------------------------
(* Python str operations on sequences of characters (positions from 1) *)

\* sub occurs in s at position i
StartsAt(s, sub, i) ==
    /\ i >= 1
    /\ i + Len(sub) - 1 <= Len(s)
    /\ \A j \in 1..Len(sub) : s[i + j - 1] = sub[j]

\* str.find(sub, from): the first position >= from where sub occurs, 0 if none
IndexOf(s, sub, from) ==
    LET hits == {i \in from..(Len(s) - Len(sub) + 1) : StartsAt(s, sub, i)}
    IN  IF hits = {} THEN 0 ELSE Min(hits)

\* sub in s
Contains(s, sub) == IndexOf(s, sub, 1) # 0

\* s[i:] of Python with i counted from 1
From(s, i) == SubSeq(s, i, Len(s))

\* str.replace(old, new) for a non-empty old: every non-overlapping
\* occurrence, leftmost first
RECURSIVE ReplaceFrom(_, _, _, _)
ReplaceFrom(s, old, new, i) ==
    LET p == IndexOf(s, old, i)
    IN  IF p = 0 THEN From(s, i)
        ELSE SubSeq(s, i, p - 1) \o new \o ReplaceFrom(s, old, new, p + Len(old))

ReplaceAll(s, old, new) == ReplaceFrom(s, old, new, 1)

\* str.replace(old, new, 1): the first occurrence only
ReplaceFirst(s, old, new) ==
    LET p == IndexOf(s, old, 1)
    IN  IF p = 0 THEN s
        ELSE SubSeq(s, 1, p - 1) \o new \o From(s, p + Len(old))

\* str.split('\n'): the pieces between the line breaks (always at least one)
RECURSIVE SplitFrom(_, _)
SplitFrom(s, i) ==
    LET p == IndexOf(s, <<NL>>, i)
    IN  IF p = 0 THEN <<From(s, i)>>
        ELSE <<SubSeq(s, i, p - 1)>> \o SplitFrom(s, p + 1)

SplitLines(s) == SplitFrom(s, 1)

\* "\n".join(lines)
RECURSIVE JoinLines(_)
JoinLines(lines) ==
    IF Len(lines) = 0 THEN <<>>
    ELSE IF Len(lines) = 1 THEN lines[1]
    ELSE lines[1] \o <<NL>> \o JoinLines(Tail(lines))

\* str.strip(): whitespace removed at both ends
Strip(s) ==
    LET keep == {i \in 1..Len(s) : ~IsSpace(s[i])}
    IN  IF keep = {} THEN <<>> ELSE SubSeq(s, Min(keep), Max(keep))

\* str.replace('\\n', '\n'): the escape backslash-n becomes a line break
ExpandEscapes(s) == [i \in 1..Len(s) |-> IF s[i] = ESC THEN NL ELSE s[i]]

\* list.insert(i, x) with i counted from 0 and already within 0..len
InsertAt(lines, i, x) ==
    SubSeq(lines, 1, i) \o <<x>> \o SubSeq(lines, i + 1, Len(lines))

---------------------------------------------------------------------------
(* Python's int(line_idx_str) *)

Digits == <<"0", "1", "2", "3", "4", "5", "6", "7", "8", "9">>

IsDigit(ch) == \E d \in 1..Len(Digits) : Digits[d] = ch

DigitVal(ch) == (CHOOSE d \in 1..Len(Digits) : Digits[d] = ch) - 1

RECURSIVE DigitsVal(_)
DigitsVal(ds) ==
    IF Len(ds) = 0 THEN 0
    ELSE 10 * DigitsVal(SubSeq(ds, 1, Len(ds) - 1)) + DigitVal(ds[Len(ds)])

\* the text without its sign
Unsigned(t) == IF Len(t) > 0 /\ t[1] \in {"-", "+"} THEN Tail(t) ELSE t

\* int(s) does not raise ValueError: blanks around an optional sign and digits
IsInt(s) ==
    LET u == Unsigned(Strip(s))
    IN  Len(u) > 0 /\ \A i \in 1..Len(u) : IsDigit(u[i])

\* the value of int(s) when IsInt(s)
ParseInt(s) ==
    LET t == Strip(s)
        v == DigitsVal(Unsigned(t))
    IN  IF t[1] = "-" THEN 0 - v ELSE v

---------------------------------------------------------------------------
(* Python's re for the patterns of -reg: a pattern is a sequence of        *)
(* character classes, each in its own capturing group, as in               *)
(* ([vp])([0-9]); a replacement is a sequence of characters and group      *)
(* references \1, \2, \3.                                                  *)

G1 == "\\1"
G2 == "\\2"
G3 == "\\3"

GroupRefs == <<G1, G2, G3>>

IsGroupRef(ch) == \E g \in 1..Len(GroupRefs) : GroupRefs[g] = ch

GroupNo(ch) == CHOOSE g \in 1..Len(GroupRefs) : GroupRefs[g] = ch

\* the pattern matches s at position i
RegexMatchAt(elems, s, i) ==
    /\ i + Len(elems) - 1 <= Len(s)
    /\ \A j \in 1..Len(elems) : s[i + j - 1] \in elems[j]

\* pattern.search(s) from position from: the leftmost match, 0 if none
RegexSearch(elems, s, from) ==
    LET hits == {i \in from..(Len(s) - Len(elems) + 1) : RegexMatchAt(elems, s, i)}
    IN  IF hits = {} THEN 0 ELSE Min(hits)

\* a template in which group references are left as they are written
ExpandTemplateLiteral(repl, s, p) == repl

\* the replacement template for the match at position p
RECURSIVE ExpandTemplate(_, _, _)
ExpandTemplate(repl, s, p) ==
    IF Len(repl) = 0 THEN <<>>
    ELSE (IF IsGroupRef(repl[1]) THEN <<s[p + GroupNo(repl[1]) - 1]>>
          ELSE <<repl[1]>>) \o ExpandTemplate(Tail(repl), s, p)

\* pattern.sub(repl, s): every non-overlapping match, leftmost first
RECURSIVE RegexSubFrom(_, _, _, _)
RegexSubFrom(elems, repl, s, i) ==
    LET p == RegexSearch(elems, s, i)
    IN  IF p = 0 THEN From(s, i)
        ELSE SubSeq(s, i, p - 1) \o ExpandTemplate(repl, s, p)
             \o RegexSubFrom(elems, repl, s, p + Len(elems))

RegexSub(elems, repl, s) == RegexSubFrom(elems, repl, s, 1)

\* the template names a group the pattern does not have: re.error
BadGroupRef(elems, repl) ==
    \E i \in 1..Len(repl) : IsGroupRef(repl[i]) /\ GroupNo(repl[i]) > Len(elems)

---------------------------------------------------------------------------
(* SmaliKit.apply_modifications.  A chain state is the function's locals:   *)
(* body (new_body), modified (is_modified), errors (the "[ERROR]" lines it  *)
(* logged) and raised (an exception left the function).  An option that is  *)
(* None or empty is the empty sequence: the code tests every option for     *)
(* truth.                                                                   *)

Given(opt) == Len(opt) > 0

ChainStart(body) ==
    [body |-> body, modified |-> FALSE, errors |-> 0, raised |-> FALSE]

\* 1. -remake
Remake(a, s) ==
    IF Given(a.remake)
    THEN [s EXCEPT !.body = <<NL>> \o IND \o ExpandEscapes(a.remake) \o <<NL>>,
                   !.modified = TRUE]
    ELSE s

\* a -rim that replaces the first occurrence only
ReplaceInMethodFirst(a, s) ==
    IF Given(a.replace_in_method) /\ Contains(s.body, a.replace_in_method[1])
    THEN [s EXCEPT !.body = ReplaceFirst(s.body, a.replace_in_method[1],
                                         a.replace_in_method[2]),
                   !.modified = TRUE]
    ELSE s

\* 2. -rim
ReplaceInMethod(a, s) ==
    IF Given(a.replace_in_method) /\ Contains(s.body, a.replace_in_method[1])
    THEN [s EXCEPT !.body = ReplaceAll(s.body, a.replace_in_method[1],
                                       a.replace_in_method[2]),
                   !.modified = TRUE]
    ELSE s

\* 3. -reg
RegexReplace(a, s) ==
    IF ~Given(a.regex_replace) THEN s
    ELSE LET pat  == a.regex_replace[1]
             repl == a.regex_replace[2]
         IN  IF ~pat.wellformed THEN [s EXCEPT !.raised = TRUE]
             ELSE IF RegexSearch(pat.elems, s.body, 1) = 0 THEN s
             ELSE IF BadGroupRef(pat.elems, repl) THEN [s EXCEPT !.raised = TRUE]
             ELSE [s EXCEPT !.body = RegexSub(pat.elems, repl, s.body),
                            !.modified = TRUE]

\* 4. -dim
DeleteInMethod(a, s) ==
    IF Given(a.delete_in_method) /\ Contains(s.body, a.delete_in_method)
    THEN [s EXCEPT !.body = ReplaceAll(s.body, a.delete_in_method, <<>>),
                   !.modified = TRUE]
    ELSE s

\* 5. -al
AfterLine(a, s) ==
    IF Given(a.after_line) /\ Contains(s.body, a.after_line[1])
    THEN [s EXCEPT !.body = ReplaceAll(s.body, a.after_line[1],
                       a.after_line[1] \o <<NL>> \o IND \o a.after_line[2]),
                   !.modified = TRUE]
    ELSE s

\* 6. -bl
BeforeLine(a, s) ==
    IF Given(a.before_line) /\ Contains(s.body, a.before_line[1])
    THEN [s EXCEPT !.body = ReplaceAll(s.body, a.before_line[1],
                       IND \o a.before_line[2] \o <<NL>> \o a.before_line[1]),
                   !.modified = TRUE]
    ELSE s

\* an index without the check for negative values: list.insert counts a
\* negative index from the end
ClampIndexFromEnd(idx, n) ==
    IF idx > n THEN n ELSE IF idx < 0 THEN Max({0, n + idx}) ELSE idx

\* line_idx after the two boundary checks
ClampIndex(idx, n) == IF idx < 0 THEN 0 ELSE IF idx > n THEN n ELSE idx

\* block_to_insert: every line of the code stripped and indented
FormatCode(code) ==
    LET code_lines == SplitLines(ExpandEscapes(code))
    IN  JoinLines([i \in 1..Len(code_lines) |-> IND \o Strip(code_lines[i])])

\* an -il without the except clause: the ValueError of int() leaves the function
InsertLineRaising(a, s) ==
    IF ~Given(a.insert_line) THEN s
    ELSE IF ~IsInt(a.insert_line[1]) THEN [s EXCEPT !.raised = TRUE]
    ELSE LET lines == SplitLines(s.body)
             idx   == ClampIndex(ParseInt(a.insert_line[1]), Len(lines))
         IN  [s EXCEPT !.body = JoinLines(InsertAt(lines, idx,
                                              FormatCode(a.insert_line[2]))),
                       !.modified = TRUE]

\* 7. -il
InsertLine(a, s) ==
    IF ~Given(a.insert_line) THEN s
    ELSE IF ~IsInt(a.insert_line[1]) THEN [s EXCEPT !.errors = @ + 1]
    ELSE LET lines == SplitLines(s.body)
             idx   == ClampIndex(ParseInt(a.insert_line[1]), Len(lines))
         IN  [s EXCEPT !.body = JoinLines(InsertAt(lines, idx,
                                              FormatCode(a.insert_line[2]))),
                       !.modified = TRUE]

\* an order in which -dim comes before -reg
PrimitiveOrderSwapped == <<"remake", "rim", "dim", "reg", "al", "bl", "il">>

\* the order in which the function reaches its seven blocks
PrimitiveOrder == <<"remake", "rim", "reg", "dim", "al", "bl", "il">>

\* one block of the function; nothing runs once an exception was raised
ApplyPrimitive(name, a, s) ==
    IF s.raised THEN s
    ELSE CASE name = "remake" -> Remake(a, s)
           [] name = "rim"    -> ReplaceInMethod(a, s)
           [] name = "reg"    -> RegexReplace(a, s)
           [] name = "dim"    -> DeleteInMethod(a, s)
           [] name = "al"     -> AfterLine(a, s)
           [] name = "bl"     -> BeforeLine(a, s)
           [] name = "il"     -> InsertLine(a, s)

RECURSIVE RunChain(_, _, _)
RunChain(a, s, k) ==
    IF k > Len(PrimitiveOrder) THEN s
    ELSE RunChain(a, ApplyPrimitive(PrimitiveOrder[k], a, s), k + 1)

\* apply_modifications(original_body)
apply_modifications(a, original_body) == RunChain(a, ChainStart(original_body), 1)

---------------------------------------------------------------------------
(* SmaliKit.__init__: the method-name part of the block pattern, and the   *)
(* pattern itself, matched the way Python's backtracking matcher does.     *)

\* a constructor without the sys.exit(1) branch
MethodNamePatternNoExit(a) ==
    IF Given(a.method)
    THEN IF \E i \in 1..Len(a.method) : a.method[i] = LP
         THEN [kind |-> "sig", text |-> a.method]
         ELSE [kind |-> "name", text |-> a.method]
    ELSE [kind |-> "any", text |-> <<>>]

\* method_name_pattern: "sig" is re.escape(method), "name" is
\* re.escape(method) + \s*\( , "any" is .*? , "none" is the sys.exit(1) branch
MethodNamePattern(a) ==
    IF Given(a.method)
    THEN IF \E i \in 1..Len(a.method) : a.method[i] = LP
         THEN [kind |-> "sig", text |-> a.method]
         ELSE [kind |-> "name", text |-> a.method]
    ELSE IF Given(a.seek_keyword)
         THEN [kind |-> "any", text |-> <<>>]
         ELSE [kind |-> "none", text |-> <<>>]

\* ^ under re.MULTILINE
LineStart(s, p) == p = 1 \/ s[p - 1] = NL

\* where a greedy \s* that starts at p ends
RECURSIVE SkipSpace(_, _)
SkipSpace(s, p) ==
    IF p > Len(s) \/ ~IsSpace(s[p]) THEN p ELSE SkipSpace(s, p + 1)

\* where a greedy [^\n\r]* that starts at j ends
RECURSIVE EndOfLine(_, _)
EndOfLine(s, j) ==
    IF j > Len(s) \/ ~NotNewline(s[j]) THEN j ELSE EndOfLine(s, j + 1)

\* ^\s*\.end method matches at f
FooterAt(s, f) ==
    /\ LineStart(s, f)
    /\ StartsAt(s, EM, SkipSpace(s, f))

\* every position where the footer part matches
Footers(s) == {f \in 1..Len(s) : FooterAt(s, f)}

\* a bare name matched without the \s*\( that follows it
NameEndsPrefix(np, s, n) ==
    CASE np.kind \in {"sig", "name"} ->
           IF StartsAt(s, np.text, n) THEN {n + Len(np.text)} ELSE {}
      [] np.kind = "any" -> n..(Len(s) + 1)
      [] OTHER -> {}

\* the positions where the method-name part can end when it starts at n,
\* for the matcher to try in increasing order
NameEnds(np, s, n) ==
    CASE np.kind = "sig" ->
           IF StartsAt(s, np.text, n) THEN {n + Len(np.text)} ELSE {}
      [] np.kind = "name" ->
           IF StartsAt(s, np.text, n)
              /\ SkipSpace(s, n + Len(np.text)) <= Len(s)
              /\ s[SkipSpace(s, n + Len(np.text))] = LP
           THEN {SkipSpace(s, n + Len(np.text)) + 1}
           ELSE {}
      [] np.kind = "any" -> n..(Len(s) + 1)
      [] OTHER -> {}

NoMatch == [hs |-> 0, he |-> 0, fs |-> 0, fe |-> 0]

\* a pattern whose body runs to the last footer of the text
MatchAtFarthest(np, s, foot, p) ==
    LET q == SkipSpace(s, p)
        I == IF q <= Len(s) /\ s[q] = DM
             THEN {i \in (q + 1)..Min({EndOfLine(s, q + 1), Len(s)}) : IsSpace(s[i])}
             ELSE {}
        GoodK(k)    == \E f \in foot : f >= k
        GoodJ(j)    == \E k \in j..EndOfLine(s, j) : GoodK(k)
        GoodI(i)    == \E j \in NameEnds(np, s, i + 1) : GoodJ(j)
        is          == {i \in I : GoodI(i)}
    IN  IF ~LineStart(s, p) \/ is = {} THEN NoMatch
        ELSE LET i == Min(is)
                 j == Min({x \in NameEnds(np, s, i + 1) : GoodJ(x)})
                 k == Max({x \in j..EndOfLine(s, j) : GoodK(x)})
                 f == Max(foot)
             IN  [hs |-> p, he |-> k, fs |-> f, fe |-> SkipSpace(s, f) + Len(EM)]

\* method_pattern matched at p: header is [hs, he), body [he, fs), footer
\* [fs, fe).  The matcher prefers the shortest [^\n\r]*? (i), then the
\* shortest name (j), then the longest [^\n\r]* (k), then the shortest body (f).
MatchAt(np, s, foot, p) ==
    LET q == SkipSpace(s, p)
        I == IF q <= Len(s) /\ s[q] = DM
             THEN {i \in (q + 1)..Min({EndOfLine(s, q + 1), Len(s)}) : IsSpace(s[i])}
             ELSE {}
        GoodK(k)    == \E f \in foot : f >= k
        GoodJ(j)    == \E k \in j..EndOfLine(s, j) : GoodK(k)
        GoodI(i)    == \E j \in NameEnds(np, s, i + 1) : GoodJ(j)
        is          == {i \in I : GoodI(i)}
    IN  IF ~LineStart(s, p) \/ is = {} THEN NoMatch
        ELSE LET i == Min(is)
                 j == Min({x \in NameEnds(np, s, i + 1) : GoodJ(x)})
                 k == Max({x \in j..EndOfLine(s, j) : GoodK(x)})
                 f == Min({x \in foot : x >= k})
             IN  [hs |-> p, he |-> k, fs |-> f, fe |-> SkipSpace(s, f) + Len(EM)]

\* a search that resumes one character after the start of the previous
\* match, not at its end
RECURSIVE FindIterOverlapping(_, _, _, _)
FindIterOverlapping(np, s, foot, pos) ==
    LET starts == {p \in pos..Len(s) : MatchAt(np, s, foot, p).hs # 0}
    IN  IF starts = {} THEN <<>>
        ELSE LET m == MatchAt(np, s, foot, Min(starts))
             IN  <<m>> \o FindIterOverlapping(np, s, foot, m.hs + 1)

\* method_pattern.finditer(content) from position pos: the matches, leftmost
\* first, each search resuming where the previous match ended
RECURSIVE FindIter(_, _, _, _)
FindIter(np, s, foot, pos) ==
    LET starts == {p \in pos..Len(s) : MatchAt(np, s, foot, p).hs # 0}
    IN  IF starts = {} THEN <<>>
        ELSE LET m == MatchAt(np, s, foot, Min(starts))
             IN  <<m>> \o FindIter(np, s, foot, m.fe)

Matches(np, s) == FindIter(np, s, Footers(s), 1)

\* match.group('header'), 'body', 'footer' and group(0)
Header(s, m) == SubSeq(s, m.hs, m.he - 1)
Body(s, m) == SubSeq(s, m.he, m.fs - 1)
Footer(s, m) == SubSeq(s, m.fs, m.fe - 1)
FullBlock(s, m) == SubSeq(s, m.hs, m.fe - 1)

---------------------------------------------------------------------------
(* SmaliKit.process_content *)

\* filters of which one suffices
PassesEitherFilter(a, s, m) ==
    \/ ~Given(a.seek_keyword) /\ ~Given(a.return_type)
    \/ Given(a.seek_keyword) /\ Contains(Body(s, m), a.seek_keyword)
    \/ Given(a.return_type) /\ Contains(Header(s, m), <<RP>> \o a.return_type)

\* a keyword filter that looks at the whole block
PassesFiltersInBlock(a, s, m) ==
    /\ ~(Given(a.seek_keyword) /\ ~Contains(FullBlock(s, m), a.seek_keyword))
    /\ ~(Given(a.return_type) /\ ~Contains(Header(s, m), <<RP>> \o a.return_type))

\* the two filters of the loop: neither sends the block to "continue"
PassesFilters(a, s, m) ==
    /\ ~(Given(a.seek_keyword) /\ ~Contains(Body(s, m), a.seek_keyword))
    /\ ~(Given(a.return_type) /\ ~Contains(Header(s, m), <<RP>> \o a.return_type))

\* "-dm": the block is queued for removal and the loop moves on
DeleteBlock(a, s, m, i, acc) ==
    [acc EXCEPT !.selected = Append(@, i),
                !.replacements = Append(@, <<FullBlock(s, m), <<>>>>),
                !.modified = TRUE]

\* the body goes through apply_modifications; the block is queued when the
\* body was modified and the block's text has changed
RewriteBlock(a, s, m, i, acc) ==
    LET r == apply_modifications(a, Body(s, m))
        new_block == Header(s, m) \o r.body \o Footer(s, m)
    IN  IF r.raised
        THEN [acc EXCEPT !.selected = Append(@, i), !.raised = TRUE]
        ELSE IF r.modified /\ FullBlock(s, m) # new_block
        THEN [acc EXCEPT !.selected = Append(@, i),
                         !.errors = @ + r.errors,
                         !.replacements = Append(@, <<FullBlock(s, m), new_block>>),
                         !.modified = TRUE]
        ELSE [acc EXCEPT !.selected = Append(@, i),
                         !.errors = @ + r.errors]

\* a loop without the "-dm" branch
LoopBodyNoDelete(a, s, m, i, acc) ==
    IF ~PassesFilters(a, s, m) THEN acc ELSE RewriteBlock(a, s, m, i, acc)

\* one turn of "for match in matches"; acc holds the loop's variables
LoopBody(a, s, m, i, acc) ==
    IF ~PassesFilters(a, s, m) THEN acc
    ELSE IF a.delete_method THEN DeleteBlock(a, s, m, i, acc)
    ELSE RewriteBlock(a, s, m, i, acc)

RECURSIVE Loop(_, _, _, _, _)
Loop(a, s, ms, i, acc) ==
    IF i > Len(ms) \/ acc.raised THEN acc
    ELSE Loop(a, s, ms, i + 1, LoopBody(a, s, ms[i], i, acc))

\* "for old, new in replacements: new_content.replace(old, new, 1)"
RECURSIVE Splice(_, _)
Splice(text, replacements) ==
    IF Len(replacements) = 0 THEN text
    ELSE Splice(ReplaceFirst(text, replacements[1][1], replacements[1][2]),
                Tail(replacements))

\* process_content(content): content and modified are the pair it returns
\* (unless raised); the other fields are what it saw on the way
process_content(a, s) ==
    LET ms  == Matches(MethodNamePattern(a), s)
        acc == Loop(a, s, ms, 1,
                    [selected |-> <<>>, replacements |-> <<>>, modified |-> FALSE,
                     errors |-> 0, raised |-> FALSE])
    IN  [content      |-> IF acc.raised THEN s ELSE Splice(s, acc.replacements),
         modified     |-> acc.modified /\ ~acc.raised,
         raised       |-> acc.raised,
         errors       |-> acc.errors,
         matches      |-> ms,
         selected     |-> acc.selected,
         replacements |-> acc.replacements]

---------------------------------------------------------------------------
(* Inputs: rewrite requests and file texts *)

\* SmaliArgs(): every option at its default
NoArgs ==
    [method |-> <<>>, seek_keyword |-> <<>>, iname |-> <<>>, remake |-> <<>>,
     replace_in_method |-> <<>>, regex_replace |-> <<>>, delete_in_method |-> <<>>,
     delete_method |-> FALSE, after_line |-> <<>>, before_line |-> <<>>,
     insert_line |-> <<>>, return_type |-> <<>>, recursive |-> FALSE]

\* a method block: header line, body, footer
Block(header, body) == header \o <<NL>> \o body \o EM

HdrAZ  == <<DM, SP, "a", LP, RP, "Z">>
HdrAV  == <<DM, SP, "a", LP, RP, "V">>
HdrABZ == <<DM, SP, "a", "b", LP, RP, "Z">>
HdrASZ == <<DM, SP, "a", SP, LP, RP, "Z">>
HdrKZ  == <<DM, SP, "k", LP, RP, "Z">>
HdrBV  == <<DM, SP, "b", LP, RP, "V">>

\* method b, whose body starts with a comment that quotes the header of
\* method a and goes on with the lines of body
Quoting(body) == Block(HdrBV, <<"#", SP>> \o HdrAZ \o <<NL>> \o body)

\* the pieces file texts are made of: blocks, a blank line, a comment, and
\* a block of method b that ends in a comment quoting the header of a
Items ==
    { Block(HdrAZ, <<>>),
      Block(HdrAV, <<"k", NL>>),
      Block(HdrABZ, <<"k", NL>>),
      Block(HdrASZ, <<"K", NL>>),
      Block(HdrKZ, <<>>),
      <<>>,
      <<"#">>,
      Quoting(<<>>) }

\* the longest file text is made of this many pieces
MaxItems == 3

RECURSIVE ItemSeqs(_)
ItemSeqs(n) ==
    IF n = 0 THEN {<<>>}
    ELSE ItemSeqs(n - 1) \cup
         {Append(q, it) : q \in {x \in ItemSeqs(n - 1) : Len(x) = n - 1}, it \in Items}

\* the file texts: up to MaxItems pieces, one per line
Texts == {JoinLines(q) : q \in ItemSeqs(MaxItems)}

\* the selectors process_content can run with (the constructor has accepted them)
Selectors ==
    {[NoArgs EXCEPT !.method = m, !.seek_keyword = k, !.return_type = t] :
        m \in {<<>>, <<"a">>, <<"a", LP, RP, "Z">>},
        k \in {<<>>, <<"k">>},
        t \in {<<>>, <<"Z">>}}
    \ {x \in {[NoArgs EXCEPT !.return_type = t] : t \in {<<>>, <<"Z">>}} : TRUE}

\* the rewrites process_content is run with
ContentArgs ==
    UNION {{ [sel EXCEPT !.remake = <<"r">>],
             [sel EXCEPT !.delete_method = TRUE],
             [sel EXCEPT !.delete_method = TRUE, !.remake = <<"r">>,
                         !.insert_line = <<<<"x">>, <<"c">>>>],
             [sel EXCEPT !.replace_in_method = <<<<"k">>, <<"r">>>>] } :
           sel \in Selectors}

\* the statements of a method body
Stmts == {<<SP, "k">>, <<SP, "K">>, <<"r">>}

\* a block of method a()Z whose body is the three statements q
LocateBlock(q) ==
    Block(HdrAZ, q[1] \o <<NL>> \o q[2] \o <<NL>> \o q[3] \o <<NL>>)

\* what stands before and after such a block in its file
LocatePre == {<<>>, <<"#", NL>>, Block(HdrABZ, <<"k", NL>>) \o <<NL>>}
LocatePost == {<<>>, <<NL, "#">>, <<NL>> \o Block(HdrAV, <<"k", NL>>)}

\* the texts in which a method is located by its signature
LocateTexts ==
    {pre \o LocateBlock(<<s1, s2, s3>>) \o post :
        pre \in LocatePre, s1 \in Stmts, s2 \in Stmts, s3 \in Stmts,
        post \in LocatePost}

\* requests that name the method by its signature
LocateArgs ==
    {[NoArgs EXCEPT !.method = <<"a", LP, RP, "Z">>, !.remake = <<"r">>],
     [NoArgs EXCEPT !.method = <<"a", LP, RP, "Z">>, !.delete_in_method = <<"c">>]}

\* the pieces of the texts with several blocks of one method: blocks of
\* a()Z with one and with two statements k, a block a()V, a block of
\* method b that quotes the header of a and goes on like the first block,
\* and a header of a()Z with a statement and no footer
SpliceItems ==
    { Block(HdrAZ, <<"k", NL>>),
      Block(HdrAZ, <<"k", "k", NL>>),
      Block(HdrAV, <<"k", NL>>),
      Quoting(<<"k", NL>>),
      HdrAZ \o <<NL, "k">> }

\* the texts made of one, two or three of these pieces, one per line
SpliceTexts ==
    {JoinLines(<<x>>) : x \in SpliceItems}
    \cup {JoinLines(<<x, y>>) : x \in SpliceItems, y \in SpliceItems}
    \cup {JoinLines(<<x, y, z>>) : x \in SpliceItems, y \in SpliceItems,
                                   z \in SpliceItems}

\* the requests these texts are rewritten with
SpliceArgs ==
    {[NoArgs EXCEPT !.method = <<"a">>, !.replace_in_method = <<<<"k">>, <<"k", "k">>>>],
     [NoArgs EXCEPT !.method = <<"a">>, !.return_type = <<"Z">>,
                    !.replace_in_method = <<<<"k">>, <<"r">>>>],
     [NoArgs EXCEPT !.method = <<"a">>, !.return_type = <<"Z">>, !.delete_method = TRUE],
     [NoArgs EXCEPT !.seek_keyword = <<"k">>, !.return_type = <<"Z">>,
                    !.delete_method = TRUE]}

---------------------------------------------------------------------------
(* SpecContent: process_content as a function of the request and the text *)

NoOutcome ==
    [content |-> <<>>, modified |-> FALSE, raised |-> FALSE, errors |-> 0,
     matches |-> <<>>, selected |-> <<>>, replacements |-> <<>>]

Files == {"f1", "f2", "f3"}

Idle ==
    /\ disk = [f \in Files |-> <<>>]
    /\ disk0 = [f \in Files |-> <<>>]
    /\ before = [f \in Files |-> <<>>]
    /\ visited = <<>>
    /\ root = "missing"
    /\ todo = {}
    /\ fstate = [f \in Files |-> "Unvisited"]
    /\ reads = [f \in Files |-> 0]
    /\ writes = [f \in Files |-> 0]
    /\ wrote = [f \in Files |-> <<>>]
    /\ fault = [f \in Files |-> "none"]
    /\ exitCode = -1
    /\ run = 0
    /\ errors = 0
    /\ log = {}

walkVars == <<disk, disk0, before, visited, root, todo, fstate, reads, writes, wrote, fault,
              exitCode, run, errors, log>>

InitContent ==
    /\ Idle
    /\ \/ args \in ContentArgs /\ content \in Texts
       \/ args \in LocateArgs /\ content \in LocateTexts
       \/ args \in SpliceArgs /\ content \in SpliceTexts
    /\ outcome = NoOutcome
    /\ pc = "content"
    /\ body0 = <<>>
    /\ st = ChainStart(<<>>)
    /\ step = 0

ProcessContent ==
    /\ pc = "content"
    /\ outcome' = process_content(args, content)
    /\ pc' = "processed"
    /\ UNCHANGED <<args, content, body0, st, step>>
    /\ UNCHANGED walkVars

NextContent == ProcessContent

SpecContent == InitContent /\ [][NextContent]_vars

---------------------------------------------------------------------------
(* SpecBody: apply_modifications, one block of the function per step *)

\* a body holds at most this many characters between its two line breaks
MaxBodyLen == 3

RECURSIVE Strings(_, _)
Strings(alphabet, n) ==
    IF n = 0 THEN {<<>>}
    ELSE Strings(alphabet, n - 1) \cup
         {Append(x, ch) : x \in {y \in Strings(alphabet, n - 1) : Len(y) = n - 1},
                          ch \in alphabet}

\* what the block pattern can capture as a body: nothing, or lines ending in
\* a line break
Bodies ==
    {<<>>, <<NL>>} \cup
    {<<NL>> \o x \o <<NL>> : x \in Strings({"k", "r", NL}, MaxBodyLen) \ {<<>>}}

\* every subset of the seven primitives, each with one parameter (two for -il)
BodyArgs ==
    {[NoArgs EXCEPT !.method = <<"a">>, !.remake = rm, !.replace_in_method = rim,
                    !.regex_replace = reg, !.delete_in_method = dim,
                    !.after_line = al, !.before_line = bl, !.insert_line = il] :
        rm  \in {<<>>, <<"k">>},
        rim \in {<<>>, <<<<"k">>, <<"c">>>>},
        reg \in {<<>>, <<[elems |-> <<{"c"}>>, wellformed |-> TRUE], <<"r", G1>>>>},
        dim \in {<<>>, <<"r">>},
        al  \in {<<>>, <<<<"c">>, <<"r">>>>},
        bl  \in {<<>>, <<<<"r">>, <<"b">>>>},
        il  \in {<<>>, <<<<"1">>, <<"r">>>>, <<<<"x">>, <<"r">>>>}}

\* one primitive alone, with parameters of more kinds: an old text of two
\* characters and a new text that contains the old one for -rim; a class of
\* two characters and a pattern of two groups for -reg; indexes below,
\* within and beyond the lines of the body and a code of two lines for -il
PrimArgs ==
    {[NoArgs EXCEPT !.method = <<"a">>, !.replace_in_method = rim] :
        rim \in {<<<<"k", "k">>, <<"r">>>>, <<<<"k">>, <<"k", "k">>>>,
                 <<<<"r">>, <<>>>>}}
    \cup
    {[NoArgs EXCEPT !.method = <<"a">>, !.regex_replace = reg] :
        reg \in {<<[elems |-> <<{"k", "r"}>>, wellformed |-> TRUE], <<"c", G1>>>>,
                 <<[elems |-> <<{"k"}>>, wellformed |-> TRUE], <<G1, G1>>>>,
                 <<[elems |-> <<{"k"}, {"k", "r"}>>, wellformed |-> TRUE],
                   <<G2, "c", G1>>>>}}
    \cup
    {[NoArgs EXCEPT !.method = <<"a">>, !.after_line = <<<<"k">>, <<"c">>>>],
     [NoArgs EXCEPT !.method = <<"a">>, !.before_line = <<<<"k">>, <<"c">>>>]}
    \cup
    {[NoArgs EXCEPT !.method = <<"a">>, !.insert_line = <<idx, code>>] :
        idx \in {<<"0">>, <<"2">>, <<"9", "9">>, <<"-", "1">>},
        code \in {<<"c">>, <<"c", ESC, SP, "b">>}}

InitBody ==
    /\ Idle
    /\ args \in BodyArgs \cup PrimArgs
    /\ body0 \in Bodies
    /\ st = ChainStart(body0)
    /\ step = 0
    /\ pc = "chain"
    /\ content = <<>>
    /\ outcome = NoOutcome

\* the function passes its next block
ApplyStep ==
    /\ pc = "chain"
    /\ step < Len(PrimitiveOrder)
    /\ st' = ApplyPrimitive(PrimitiveOrder[step + 1], args, st)
    /\ step' = step + 1
    /\ UNCHANGED <<args, pc, body0, content, outcome>>
    /\ UNCHANGED walkVars

\* "return new_body, is_modified"
ReturnBody ==
    /\ pc = "chain"
    /\ step = Len(PrimitiveOrder)
    /\ pc' = "returned"
    /\ UNCHANGED <<args, body0, st, step, content, outcome>>
    /\ UNCHANGED walkVars

NextBody == ApplyStep \/ ReturnBody

SpecBody == InitBody /\ [][NextBody]_vars

---------------------------------------------------------------------------
(* SmaliKit.patch_file and SmaliKit.walk_and_patch *)

\* the tree: dir/A.smali (f1), dir/sub/B.smali (f2), dir/A.txt (f3)
Dirs == {"dir", "sub"}

\* the directory a file or a directory lies in
Parent(p) ==
    CASE p = "f1"  -> "dir"
      [] p = "f2"  -> "sub"
      [] p = "f3"  -> "dir"
      [] p = "sub" -> "dir"
      [] OTHER     -> "none"

\* the names of the files of the tree
FileName(f) ==
    CASE f = "f1" -> <<"A", ".smali">>
      [] f = "f2" -> <<"B", ".smali">>
      [] f = "f3" -> <<"A", ".txt">>

\* os.path.isfile and os.path.isdir
IsFile(p) == p \in Files
IsDir(p) == p \in Dirs

\* the directories os.walk(top) yields: top and every directory below it
Walk(top) == {d \in Dirs : d = top \/ Parent(d) = top}

\* str.endswith(".smali")
IsSmali(name) == Len(name) > 0 /\ name[Len(name)] = ".smali"

\* a walk that descends into the directories below top only when the
\* recursive flag is set
EnumerateByFlag(a, top) ==
    {f \in Files : /\ IF a.recursive THEN Parent(f) \in Walk(top) ELSE Parent(f) = top
                   /\ IsSmali(FileName(f))
                   /\ ~(Given(a.iname) /\ ~Contains(FileName(f), a.iname))}

\* the files the loop over os.walk(top) hands to patch_file; args.recursive
\* is not read
Enumerate(a, top) ==
    {f \in Files : /\ Parent(f) \in Walk(top)
                   /\ IsSmali(FileName(f))
                   /\ ~(Given(a.iname) /\ ~Contains(FileName(f), a.iname))}

\* the failures the environment can raise for a file: none; "read": open or
\* read raises; "openw": open(..., 'w') raises; "write": write raises after
\* open(..., 'w') has truncated the file
FaultKinds == {"none", "read", "openw", "write"}

\* a test that does not look at the keyword
FastRejectIgnoringKeyword(a, text) == Given(a.method) /\ ~Contains(text, a.method)

\* the "if ... return False" before process_content
FastReject(a, text) ==
    Given(a.method) /\ ~Contains(text, a.method) /\ ~Given(a.seek_keyword)

\* patch_file after process_content returned o: an exception of the rewrite
\* is caught and logged; the file is opened for writing only when o reports
\* a modification, and a failing open or write is caught and logged as well
\* (a failing open leaves the file as it was, a failing write leaves it
\* truncated: empty, or with the first half of the new text)
Save(o, text, flt, half) ==
    IF o.raised
    THEN [state |-> "Failed", text |-> text, opened_w |-> FALSE,
          saved |-> FALSE, errors |-> o.errors + 1, outcome |-> o]
    ELSE IF ~o.modified
    THEN [state |-> IF Len(o.selected) = 0 THEN "NoMatch" ELSE "Unchanged",
          text |-> text, opened_w |-> FALSE, saved |-> FALSE,
          errors |-> o.errors, outcome |-> o]
    ELSE IF flt = "openw"
    THEN [state |-> "Failed", text |-> text, opened_w |-> TRUE,
          saved |-> FALSE, errors |-> o.errors + 1, outcome |-> o]
    ELSE IF flt = "write"
    THEN [state |-> "Failed",
          text |-> IF half THEN SubSeq(o.content, 1, Len(o.content) \div 2)
                   ELSE <<>>,
          opened_w |-> TRUE, saved |-> FALSE, errors |-> o.errors + 1,
          outcome |-> o]
    ELSE [state |-> "Rewritten", text |-> o.content, opened_w |-> TRUE,
          saved |-> TRUE, errors |-> o.errors, outcome |-> o]

\* patch_file(file_path) for a file that holds text, under failure flt; half
\* tells whether half of the new text or none of it reached the file when
\* write raised.
\*   state: where the file ends; text: what the file holds afterwards;
\*   opened_w: open(..., 'w') was called; saved: the value returned;
\*   errors: "[ERROR]" lines logged; outcome: what process_content returned
patch_file(a, text, flt, half) ==
    IF flt = "read"
    THEN [state |-> "Failed", text |-> text, opened_w |-> FALSE, saved |-> FALSE,
          errors |-> 1, outcome |-> NoOutcome]
    ELSE IF FastReject(a, text)
    THEN [state |-> "NoMatch", text |-> text, opened_w |-> FALSE, saved |-> FALSE,
          errors |-> 0, outcome |-> NoOutcome]
    ELSE Save(process_content(a, text), text, flt, half)

\* a printed line: what it says and the path it is about ("" when none)
Line(what, about) == [line |-> what, path |-> about]

\* the lines patch_file(f) prints when it ends with r under request a
Logged(a, f, r) ==
    (IF Len(r.outcome.selected) > 0 THEN {Line("Target Found", f)} ELSE {})
    \cup (IF Len(r.outcome.selected) > 0 /\ a.delete_method
          THEN {Line("Applying -dm", f)} ELSE {})
    \cup (IF r.outcome.errors > 0 THEN {Line("Invalid line number", f)} ELSE {})
    \cup (IF r.saved THEN {Line("Saved", f)} ELSE {})
    \cup (IF r.state = "Failed" THEN {Line("processing", f)} ELSE {})

\* the pieces the texts of the tree are made of: two blocks of method a,
\* and a block of method b that reads like the first from its comment on
WalkItems ==
    { Block(HdrAZ, <<"k", "K", NL>>),
      Block(HdrAZ, <<"K", "k", NL>>),
      Quoting(<<"k", "K", NL>>) }

\* the longest text of file f1 is made of this many pieces
MaxWalkItems == 2

RECURSIVE WalkItemSeqs(_)
WalkItemSeqs(n) ==
    IF n = 0 THEN {<<>>}
    ELSE WalkItemSeqs(n - 1) \cup
         {Append(q, it) : q \in {x \in WalkItemSeqs(n - 1) : Len(x) = n - 1},
                          it \in WalkItems}

WalkTexts == {JoinLines(q) : q \in WalkItemSeqs(MaxWalkItems)}

\* the texts of file f2, and the text of f3 (which is no .smali file)
OtherTexts == {<<>>, Block(HdrAZ, <<"k", "K", NL>>)}
PlainText == Block(HdrAZ, <<"k", "K", NL>>)

\* ([kK])([kK]) -> \2\1
SwapRegex == <<[elems |-> <<{"k", "K"}, {"k", "K"}>>, wellformed |-> TRUE], <<G2, G1>>>>

\* an unbalanced parenthesis: re.compile raises
BadRegex == <<[elems |-> <<{"k"}>>, wellformed |-> FALSE], <<"r">>>>

\* the rewrite requests the tree is walked with
WalkArgs ==
    { [NoArgs EXCEPT !.remake = <<"r">>],
      [NoArgs EXCEPT !.delete_method = TRUE, !.return_type = <<"Z">>],
      [NoArgs EXCEPT !.method = <<"a">>, !.remake = <<"r">>],
      [NoArgs EXCEPT !.method = <<"a">>, !.remake = <<"r">>, !.iname = <<"B">>],
      [NoArgs EXCEPT !.method = <<"a">>, !.remake = <<"r">>, !.recursive = TRUE],
      [NoArgs EXCEPT !.method = <<"a">>, !.delete_method = TRUE],
      [NoArgs EXCEPT !.method = <<"b">>, !.delete_method = TRUE],
      [NoArgs EXCEPT !.method = <<"b">>, !.seek_keyword = <<"k">>,
                     !.delete_method = TRUE],
      [NoArgs EXCEPT !.seek_keyword = <<"k">>, !.return_type = <<"Z">>,
                     !.replace_in_method = <<<<"k">>, <<"r">>>>],
      [NoArgs EXCEPT !.method = <<"a">>, !.regex_replace = SwapRegex],
      [NoArgs EXCEPT !.method = <<"a">>, !.regex_replace = BadRegex],
      [NoArgs EXCEPT !.method = <<"a">>, !.insert_line = <<<<"x">>, <<"c">>>>] }

\* what the command is given as -f or -p: a file, a directory, a path that
\* does not exist, or neither option
Roots == {"f1", "f3", "dir", "sub", "missing", "nopath"}

\* the environment's failures: file f1 may fail in any of the ways, the
\* other files do not fail
FaultPlans == {[f \in Files |-> IF f = "f1" THEN k ELSE "none"] : k \in FaultKinds}

\* the rewriter is run at most this many times in succession
MaxRuns == 2

Init ==
    /\ args \in WalkArgs
    /\ root \in Roots
    /\ disk \in {[f \in Files |-> CASE f = "f1" -> t1 [] f = "f2" -> t2
                                     [] OTHER -> PlainText] :
                    t1 \in WalkTexts, t2 \in OtherTexts}
    /\ disk0 = disk
    /\ before = disk
    /\ visited = <<>>
    /\ fault \in FaultPlans
    /\ pc = "cli"
    /\ todo = {}
    /\ fstate = [f \in Files |-> "Unvisited"]
    /\ reads = [f \in Files |-> 0]
    /\ writes = [f \in Files |-> 0]
    /\ wrote = [f \in Files |-> <<>>]
    /\ exitCode = -1
    /\ run = 0
    /\ errors = 0
    /\ log = {}
    /\ content = <<>>
    /\ outcome = NoOutcome
    /\ body0 = <<>>
    /\ st = ChainStart(<<>>)
    /\ step = 0

bodyVars == <<body0, st, step>>

\* main up to the constructor: the process exits with status 1 when neither
\* -f nor -p is given
Main ==
    /\ pc = "cli"
    /\ IF root = "nopath"
       THEN /\ pc' = "exited"
            /\ exitCode' = 1
            /\ errors' = errors + 1
            /\ log' = log \cup {Line("You must provide either -p or -f", "")}
       ELSE /\ pc' = "start"
            /\ UNCHANGED <<exitCode, errors, log>>
    /\ UNCHANGED <<args, disk, disk0, before, visited, root, todo, fstate, reads,
                   writes, wrote, fault, run, content, outcome>>
    /\ UNCHANGED bodyVars

\* SmaliKit(args): the constructor, which exits the process when neither
\* -m nor -seek is given
Construct ==
    /\ pc = "start"
    /\ IF MethodNamePattern(args).kind = "none"
       THEN /\ pc' = "exited"
            /\ exitCode' = 1
            /\ errors' = errors + 1
            /\ log' = log \cup {Line("You must provide either -m or -seek", "")}
       ELSE /\ pc' = "ready"
            /\ UNCHANGED <<exitCode, errors, log>>
    /\ UNCHANGED <<args, disk, disk0, before, visited, root, todo, fstate, reads,
                   writes, wrote, fault, run, content, outcome>>
    /\ UNCHANGED bodyVars

\* the files walk_and_patch(start_path) calls patch_file for: the path itself
\* when it is a file, the files the loop over os.walk lets through when it is
\* a directory, none otherwise
Targets(a, start_path) ==
    IF IsFile(start_path) THEN {start_path}
    ELSE IF IsDir(start_path) THEN Enumerate(a, start_path)
    ELSE {}

\* walk_and_patch(start_path) up to its first call of patch_file
WalkStart ==
    /\ pc = "ready"
    /\ pc' = "walking"
    /\ fstate' = [f \in Files |-> "Unvisited"]
    /\ before' = disk
    /\ visited' = <<>>
    /\ todo' = Targets(args, root)
    /\ errors' = IF IsFile(root) \/ IsDir(root) THEN errors ELSE errors + 1
    /\ log' = IF IsFile(root) \/ IsDir(root) THEN log
              ELSE log \cup {Line("Path not found", root)}
    /\ UNCHANGED <<args, disk, disk0, root, reads, writes, wrote, fault,
                   exitCode, run, content, outcome>>
    /\ UNCHANGED bodyVars


\* a walk that an exception of patch_file would end
RemainingAbort(files, f, r) == IF r.state = "Failed" THEN {} ELSE files \ {f}

\* a walk that hands a file over again when patch_file failed on it
RemainingRetry(files, f, r) == IF r.state = "Failed" THEN files ELSE files \ {f}

\* the files the loop still has to hand over after patch_file(f) came back
\* with r: its except clause has caught whatever was raised, so the loop
\* goes on with the next file
Remaining(files, f, r) == files \ {f}

\* one call of patch_file, on a file the walk has not handed over yet
PatchFile ==
    /\ pc = "walking"
    /\ \E f \in todo :
       \E half \in IF fault[f] = "write" THEN BOOLEAN ELSE {FALSE} :
       \E r \in {patch_file(args, disk[f], fault[f], half)} :
              /\ disk' = [disk EXCEPT ![f] = r.text]
              /\ fstate' = [fstate EXCEPT ![f] = r.state]
              /\ reads' = [reads EXCEPT ![f] = @ + 1]
              /\ writes' = [writes EXCEPT ![f] = IF r.opened_w THEN @ + 1 ELSE @]
              /\ wrote' = [wrote EXCEPT ![f] =
                              IF r.opened_w
                              THEN Append(@, [run |-> run + 1, old |-> disk[f],
                                              new |-> r.outcome.content,
                                              changed |-> Len(r.outcome.replacements),
                                              saved |-> r.saved])
                              ELSE @]
              /\ errors' = errors + r.errors
              /\ log' = log \cup Logged(args, f, r)
              /\ content' = disk[f]
              /\ outcome' = r.outcome
              /\ visited' = Append(visited, f)
              /\ todo' = Remaining(todo, f, r)
    /\ UNCHANGED <<args, pc, disk0, before, root, fault, exitCode, run>>
    /\ UNCHANGED bodyVars

\* walk_and_patch returns
WalkReturn ==
    /\ pc = "walking"
    /\ todo = {}
    /\ pc' = "done"
    /\ run' = run + 1
    /\ UNCHANGED <<args, disk, disk0, before, visited, root, todo, fstate, reads,
                   writes, wrote, fault, exitCode, errors, log, content, outcome>>
    /\ UNCHANGED bodyVars

\* main after walk_and_patch has returned: the function ends and the
\* process exits with status 0
MainReturn ==
    /\ pc = "done"
    /\ pc' = "exited"
    /\ exitCode' = 0
    /\ UNCHANGED <<args, disk, disk0, before, visited, root, todo, fstate, reads,
                   writes, wrote, fault, run, errors, log, content, outcome>>
    /\ UNCHANGED bodyVars

\* the identical command is run once more on the same tree
Again ==
    /\ pc = "exited"
    /\ exitCode = 0
    /\ run < MaxRuns
    /\ pc' = "cli"
    /\ exitCode' = -1
    /\ log' = {}
    /\ UNCHANGED <<args, disk, disk0, before, visited, root, todo, fstate, reads,
                   writes, wrote, fault, run, errors, content, outcome>>
    /\ UNCHANGED bodyVars

Next == Main \/ Construct \/ WalkStart \/ PatchFile \/ WalkReturn \/ MainReturn \/ Again

Spec == Init /\ [][Next]_vars

---------------------------------------------------------------------------
(* SpecFile: one call of patch_file, on file f1, statement by statement.   *)
(* pc is "open" before the file is read, "scan" when its content has been  *)
(* read, "save" when process_content has selected a block of it, and        *)
(* "returned" at the end; fstate follows the file through the per-file      *)
(* states Unvisited, Scanned, Matched and the four final ones.              *)

InitFile ==
    /\ args \in {a \in WalkArgs : MethodNamePattern(a).kind # "none"}
    /\ root = "f1"
    /\ disk \in {[f \in Files |-> CASE f = "f1" -> t1 [] f = "f2" -> <<>>
                                     [] OTHER -> PlainText] : t1 \in WalkTexts}
    /\ disk0 = disk
    /\ before = disk
    /\ visited = <<>>
    /\ fault \in FaultPlans
    /\ pc = "open"
    /\ todo = {"f1"}
    /\ fstate = [f \in Files |-> "Unvisited"]
    /\ reads = [f \in Files |-> 0]
    /\ writes = [f \in Files |-> 0]
    /\ wrote = [f \in Files |-> <<>>]
    /\ exitCode = -1
    /\ run = 0
    /\ errors = 0
    /\ log = {}
    /\ content = <<>>
    /\ outcome = NoOutcome
    /\ body0 = <<>>
    /\ st = ChainStart(<<>>)
    /\ step = 0

\* "with open(file_path, 'r', ...) as f: content = f.read()"
ReadFile ==
    /\ pc = "open"
    /\ reads' = [reads EXCEPT !["f1"] = @ + 1]
    /\ visited' = Append(visited, "f1")
    /\ todo' = todo \ {"f1"}
    /\ IF fault["f1"] = "read"
       THEN /\ fstate' = [fstate EXCEPT !["f1"] = "Failed"]
            /\ errors' = errors + 1
            /\ log' = log \cup {Line("processing", "f1")}
            /\ pc' = "returned"
            /\ UNCHANGED content
       ELSE /\ fstate' = [fstate EXCEPT !["f1"] = "Scanned"]
            /\ content' = disk["f1"]
            /\ pc' = "scan"
            /\ UNCHANGED <<errors, log>>
    /\ UNCHANGED <<args, disk, disk0, before, root, writes, wrote, fault, exitCode,
                   run, outcome>>
    /\ UNCHANGED bodyVars

\* the fast-reject, and process_content up to the point where it is known
\* whether a block of the content passes the selector
ScanFile ==
    /\ pc = "scan"
    /\ IF FastReject(args, content)
       THEN /\ outcome' = NoOutcome
            /\ fstate' = [fstate EXCEPT !["f1"] = "NoMatch"]
            /\ pc' = "returned"
       ELSE \E o \in {process_content(args, content)} :
            /\ outcome' = o
            /\ IF Len(o.selected) = 0
               THEN /\ fstate' = [fstate EXCEPT !["f1"] = "NoMatch"]
                    /\ pc' = "returned"
               ELSE /\ fstate' = [fstate EXCEPT !["f1"] = "Matched"]
                    /\ pc' = "save"
    /\ UNCHANGED <<args, disk, disk0, before, visited, root, todo, reads, writes,
                   wrote, fault, exitCode, run, errors, log, content>>
    /\ UNCHANGED bodyVars

\* the rest of patch_file for a content with a selected block: the end of
\* process_content, "if patched:", the write and the except clause
SaveFile ==
    /\ pc = "save"
    /\ \E half \in IF fault["f1"] = "write" THEN BOOLEAN ELSE {FALSE} :
       \E r \in {Save(outcome, content, fault["f1"], half)} :
          /\ disk' = [disk EXCEPT !["f1"] = r.text]
          /\ fstate' = [fstate EXCEPT !["f1"] = r.state]
          /\ writes' = [writes EXCEPT !["f1"] = IF r.opened_w THEN @ + 1 ELSE @]
          /\ wrote' = [wrote EXCEPT !["f1"] =
                          IF r.opened_w
                          THEN Append(@, [run |-> run + 1, old |-> content,
                                          new |-> outcome.content,
                                          changed |-> Len(outcome.replacements),
                                          saved |-> r.saved])
                          ELSE @]
          /\ errors' = errors + r.errors
          /\ log' = log \cup Logged(args, "f1", r)
    /\ pc' = "returned"
    /\ UNCHANGED <<args, disk0, before, visited, root, todo, reads, fault, exitCode,
                   run, content, outcome>>
    /\ UNCHANGED bodyVars

NextFile == ReadFile \/ ScanFile \/ SaveFile

SpecFile == InitFile /\ [][NextFile]_vars

---------------------------------------------------------------------------
(* Properties of the walk (Spec) *)

NoSelector(a) == ~Given(a.method) /\ ~Given(a.seek_keyword)

\* C1: a request with neither a method selector nor a keyword is rejected by
\* the constructor: the process exits with status 1 after logging the error,
\* the walk never starts, no file is read or opened for writing, and every
\* file keeps the content it had.
C1_NoSelectorRejected ==
    NoSelector(args) =>
        /\ pc \in {"cli", "start", "exited"}
        /\ pc = "exited" => exitCode = 1 /\ exitCode # 0 /\ errors >= 1
        /\ \A f \in Files : reads[f] = 0 /\ writes[f] = 0 /\ disk[f] = disk0[f]

\* a request that would delete blocks, had it a selector, has been rejected
\* over a tree whose files hold blocks
C1_Witness ==
    /\ pc = "exited"
    /\ NoSelector(args)
    /\ args.delete_method
    /\ root = "dir"
    /\ Len(Matches([kind |-> "any", text |-> <<>>], disk["f1"])) > 0

\* C2: patch_file opens a file for writing only if at least one selected
\* block was changed and the content to be written differs from the content
\* that was read.
C2_WritesOnlyChangedContent ==
    \A f \in Files : \A i \in 1..Len(wrote[f]) :
        wrote[f][i].changed > 0 /\ wrote[f][i].new # wrote[f][i].old

\* only -remake is asked for
RemakeOnly(a) ==
    /\ Given(a.remake)
    /\ ~a.delete_method
    /\ ~Given(a.replace_in_method) /\ ~Given(a.regex_replace)
    /\ ~Given(a.delete_in_method) /\ ~Given(a.after_line)
    /\ ~Given(a.before_line) /\ ~Given(a.insert_line)

\* C3: when the identical -remake request has run twice over the same files
\* and nothing failed, every file in which the first run selected a block was
\* written by the first run, no file was written by the second run, and the
\* content after the second run is the content after the first.
C3_RemakeIdempotent ==
    (pc = "done" /\ run = 2 /\ RemakeOnly(args) /\ \A f \in Files : fault[f] = "none") =>
        \A f \in Targets(args, root) :
            /\ Len(process_content(args, disk0[f]).selected) > 0
                  => \E i \in 1..Len(wrote[f]) : wrote[f][i].run = 1
            /\ \A i \in 1..Len(wrote[f]) : wrote[f][i].run # 2
            /\ disk[f] = before[f]

\* C4: a file whose patch_file failed does not change what happens to the
\* others: every file handed to patch_file that the environment did not fail
\* ends in the state and with the content that patch_file alone gives it from
\* the content it had when the run began, every file of the traversal has
\* been handed over when the walk returns, and every failure was logged.
C4_FailureIsolated ==
    pc \in {"walking", "done"} =>
        /\ \A f \in Files :
              (fstate[f] # "Unvisited" /\ fault[f] = "none") =>
                  \E r \in {patch_file(args, before[f], "none", FALSE)} :
                      disk[f] = r.text /\ fstate[f] = r.state
        /\ pc = "done" => \A f \in Targets(args, root) : fstate[f] # "Unvisited"
        /\ (\E f \in Files : fstate[f] = "Failed") => errors >= 1

\* the first file of the walk failed to be read, the second was rewritten
C4_Witness ==
    /\ pc = "done"
    /\ visited = <<"f1", "f2">>
    /\ fault["f1"] = "read"
    /\ fstate["f1"] = "Failed"
    /\ fstate["f2"] = "Rewritten"

---------------------------------------------------------------------------
(* Properties of process_content (SpecContent) *)

Range(q) == {q[i] : i \in 1..Len(q)}

RECURSIVE SumLen(_)
SumLen(replacements) ==
    IF Len(replacements) = 0 THEN 0
    ELSE Len(replacements[1][1]) + SumLen(Tail(replacements))

\* the text s without the characters of the spans [hs, fe) of ms
RECURSIVE WithoutSpans(_, _, _)
WithoutSpans(s, ms, p) ==
    IF p > Len(s) THEN <<>>
    ELSE (IF \E i \in 1..Len(ms) : ms[i].hs <= p /\ p < ms[i].fe
          THEN <<>> ELSE <<s[p]>>) \o WithoutSpans(s, ms, p + 1)

C6_DeletionFrame ==
    (/\ pc = "processed"
     /\ args.delete_method
     /\ Given(args.method) /\ ~Given(args.seek_keyword) /\ ~Given(args.return_type)
     /\ Len(outcome.matches) = 2)
        => outcome.content = WithoutSpans(content, outcome.matches, 1)

\* C8: a located block is selected exactly when every configured filter
\* holds of it (the keyword occurs in its body as it is written, and its
\* header contains ")" followed by the return type); only selected blocks are
\* queued, and when none is selected the text comes back as it was, unmodified.
C8_FiltersConjunctive ==
    (pc = "processed" /\ ~outcome.raised) =>
        /\ \A i \in 1..Len(outcome.matches) :
              i \in Range(outcome.selected) <=>
                  /\ Given(args.seek_keyword) =>
                        Contains(Body(content, outcome.matches[i]), args.seek_keyword)
                  /\ Given(args.return_type) =>
                        Contains(Header(content, outcome.matches[i]),
                                 <<RP>> \o args.return_type)
        /\ \A j \in 1..Len(outcome.replacements) :
              \E i \in Range(outcome.selected) :
                  outcome.replacements[j][1] = FullBlock(content, outcome.matches[i])
        /\ Len(outcome.selected) = 0 =>
              outcome.content = content /\ ~outcome.modified

\* three blocks returning Z, V, Z of which only the V block holds the
\* keyword, keyword k and return type Z: no block is selected
C8_Witness ==
    /\ pc = "processed"
    /\ ~Given(args.method)
    /\ args.seek_keyword = <<"k">> /\ args.return_type = <<"Z">>
    /\ content = JoinLines(<<Block(HdrAZ, <<>>), Block(HdrAV, <<"k", NL>>),
                             Block(HdrAZ, <<>>)>>)
    /\ Len(outcome.matches) = 3
    /\ outcome.selected = <<>>

BareName(a) == MethodNamePattern(a).kind = "name"

\* the characters a method name is made of
NameChars == {"a", "b", "k"}

\* header h has name N followed by a further name character
LongerName(h, N) == \E c \in NameChars : Contains(h, <<SP>> \o N \o <<c>>)

\* C9 as stated: with a bare name N, the header of every located block
\* contains N immediately followed by "(", and no located block has a name
\* of which N is a proper prefix.
C9_NameThenParen ==
    (pc = "processed" /\ BareName(args)) =>
        \A i \in 1..Len(outcome.matches) :
            /\ Contains(Header(content, outcome.matches[i]), args.method \o <<LP>>)
            /\ ~LongerName(Header(content, outcome.matches[i]), args.method)

\* C9 amended: with a bare name N, the header of every located block
\* contains N preceded by white space and followed, after any white space,
\* by "("; no located block has a name of which N is a proper prefix.
C9_NameThenSpaceParen ==
    (pc = "processed" /\ BareName(args)) =>
        \A i \in 1..Len(outcome.matches) :
            \E h \in {Header(content, outcome.matches[i])} :
                /\ \E n \in 2..Len(h) :
                      /\ IsSpace(h[n - 1])
                      /\ StartsAt(h, args.method, n)
                      /\ SkipSpace(h, n + Len(args.method)) <= Len(h)
                      /\ h[SkipSpace(h, n + Len(args.method))] = LP
                /\ ~LongerName(h, args.method)

\* name a: the block of "a (" and the block of "a(" are located, the block
\* of "ab(" between them is not
C9_Witness ==
    /\ pc = "processed"
    /\ BareName(args)
    /\ content = JoinLines(<<Block(HdrASZ, <<"K", NL>>), Block(HdrABZ, <<"k", NL>>),
                             Block(HdrAZ, <<>>)>>)
    /\ Len(outcome.matches) = 2
    /\ ~Contains(Header(content, outcome.matches[1]), args.method \o <<LP>>)

\* where the lines that begin with .method begin
HeaderLines(s) == {p \in 1..Len(s) : s[p] = DM /\ LineStart(s, p)}

\* C10: with a keyword and no method (and no return type), every line that
\* begins with .method lies in the header of a located block of its own, the
\* selected blocks are exactly the located blocks whose body contains the
\* keyword as it is written, and each of them is queued for its rewrite.
C10_KeywordSelects ==
    (/\ pc = "processed"
     /\ ~Given(args.method) /\ Given(args.seek_keyword) /\ ~Given(args.return_type))
        => /\ \A p \in HeaderLines(content) :
                 \E i \in 1..Len(outcome.matches) :
                     outcome.matches[i].hs <= p /\ p < outcome.matches[i].he
           /\ Len(outcome.matches) = Cardinality(HeaderLines(content))
           /\ \A i \in 1..Len(outcome.matches) :
                 i \in Range(outcome.selected) <=>
                     Contains(Body(content, outcome.matches[i]), args.seek_keyword)
           /\ Len(outcome.replacements) = Len(outcome.selected)

\* keyword k: of a block with k in its header only, a block with k in its
\* body and a block with K in its body, the second alone is selected
C10_Witness ==
    /\ pc = "processed"
    /\ ~Given(args.method) /\ args.seek_keyword = <<"k">> /\ ~Given(args.return_type)
    /\ content = JoinLines(<<Block(HdrKZ, <<>>), Block(HdrAV, <<"k", NL>>),
                             Block(HdrASZ, <<"K", NL>>)>>)
    /\ Len(outcome.matches) = 3
    /\ outcome.selected = <<2>>

---------------------------------------------------------------------------
(* Properties of apply_modifications (SpecBody) *)

\* -remake, -rim, -reg, -dim, -al, -bl, -il composed in this order on body
Composed(a, body) ==
    InsertLine(a,
      BeforeLine(a,
        AfterLine(a,
          DeleteInMethod(a,
            RegexReplace(a,
              ReplaceInMethod(a,
                Remake(a, ChainStart(body))))))))

\* C7: for every body and every subset of configured primitives, the body
\* returned is the one obtained by applying -remake, -rim, -reg, -dim, -al,
\* -bl, -il in this order, each to the output of the one before (a primitive
\* that is not configured passes its input on), and the modified flag is the
\* one this composition gives; with -remake configured the result is the one
\* obtained from the empty body, whatever the original body was.
C7_FixedOrder ==
    (pc = "returned" /\ ~st.raised) =>
        /\ st.body = Composed(args, body0).body
        /\ st.modified = Composed(args, body0).modified
        /\ Given(args.remake) => st.body = Composed(args, <<>>).body

\* all seven primitives configured, -il with a valid index, on a body of
\* one line, have returned a different body
C7_Witness ==
    /\ pc = "returned"
    /\ Given(args.remake) /\ Given(args.replace_in_method)
    /\ Given(args.regex_replace) /\ Given(args.delete_in_method)
    /\ Given(args.after_line) /\ Given(args.before_line)
    /\ Given(args.insert_line) /\ IsInt(args.insert_line[1])
    /\ body0 = <<NL, "r", "k", NL>>
    /\ st.modified
    /\ st.body # body0

---------------------------------------------------------------------------
(* Properties of the block pattern (SpecContent) *)

\* C11: when a method is located by its exact signature in a text where
\* its header line is followed by three statements, one per line, and then
\* by .end method, exactly one block is located: its header is the header
\* line, its body is the line break after the header, the three statements
\* and the line break of the third, and its footer is .end method.
C11_BoundaryExact ==
    (pc = "processed" /\ MethodNamePattern(args).kind = "sig") =>
        \A pre \in LocatePre, post \in LocatePost :
        \A s1 \in Stmts, s2 \in Stmts, s3 \in Stmts :
            content = pre \o LocateBlock(<<s1, s2, s3>>) \o post =>
                /\ Len(outcome.matches) = 1
                /\ outcome.matches[1].hs = Len(pre) + 1
                /\ Header(content, outcome.matches[1]) = HdrAZ
                /\ Body(content, outcome.matches[1]) =
                      <<NL>> \o s1 \o <<NL>> \o s2 \o <<NL>> \o s3 \o <<NL>>
                /\ Footer(content, outcome.matches[1]) = EM

\* located between a block of method ab and a block of a()V
C11_Witness ==
    /\ pc = "processed"
    /\ args.method = <<"a", LP, RP, "Z">>
    /\ content = Block(HdrABZ, <<"k", NL>>) \o <<NL>>
                 \o LocateBlock(<<<<SP, "k">>, <<"r">>, <<SP, "K">>>>)
                 \o <<NL>> \o Block(HdrAV, <<"k", NL>>)
    /\ Len(outcome.matches) = 1
    /\ Body(content, outcome.matches[1]) = <<NL, SP, "k", NL, "r", NL, SP, "K", NL>>
    /\ Footer(content, outcome.matches[1]) = EM

---------------------------------------------------------------------------
(* Properties of the single primitives (SpecBody).  After step k of the    *)
(* chain the state st is the output of the k-th primitive; its input is    *)
(* the output of the primitives before it.                                 *)

\* the pieces of s between the occurrences of sep, found from the left
RECURSIVE SplitOn(_, _)
SplitOn(s, sep) ==
    IF IndexOf(s, sep, 1) = 0 THEN <<s>>
    ELSE <<SubSeq(s, 1, IndexOf(s, sep, 1) - 1)>>
         \o SplitOn(From(s, IndexOf(s, sep, 1) + Len(sep)), sep)

\* the pieces joined again with new between them
RECURSIVE JoinWith(_, _)
JoinWith(parts, new) ==
    IF Len(parts) = 1 THEN parts[1]
    ELSE parts[1] \o new \o JoinWith(Tail(parts), new)

\* what -rim is given: the output of -remake
RimInput == Remake(args, ChainStart(body0))

\* C12: -rim (old, new) on a body in which old does not occur gives the
\* same body and leaves the modified flag as it was; on a body in which old
\* occurs it sets the flag and gives the body with new in the place of every
\* occurrence of old, found from the left without overlap (a single
\* character old is replaced at every position where it stood).
C12_LiteralReplace ==
    (pc = "chain" /\ step = 2 /\ Given(args.replace_in_method)) =>
        \E old \in {args.replace_in_method[1]}, new \in {args.replace_in_method[2]},
           in \in {RimInput} :
            IF ~Contains(in.body, old)
            THEN st.body = in.body /\ st.modified = in.modified
            ELSE /\ st.modified
                 /\ st.body = JoinWith(SplitOn(in.body, old), new)
                 /\ (Len(old) = 1 /\ Len(new) = 1) =>
                        st.body = [i \in 1..Len(in.body) |->
                                      IF in.body[i] = old[1] THEN new[1]
                                      ELSE in.body[i]]
                 /\ (Len(old) = 1 /\ ~Contains(new, old)) => ~Contains(st.body, old)

\* k is replaced by c at both places where it stood
C12_Witness ==
    /\ pc = "chain" /\ step = 2
    /\ args.replace_in_method = <<<<"k">>, <<"c">>>>
    /\ ~Given(args.remake)
    /\ body0 = <<NL, "k", "r", "k", NL>>
    /\ st.body = <<NL, "c", "r", "c", NL>>
    /\ st.modified

\* what -il is given: the output of the six primitives before it
IlInput ==
    BeforeLine(args,
      AfterLine(args,
        DeleteInMethod(args,
          RegexReplace(args,
            ReplaceInMethod(args,
              Remake(args, ChainStart(body0)))))))

\* the lines of the code of -il, each stripped and indented by four spaces
CodeRun(code) ==
    [i \in 1..Len(SplitLines(ExpandEscapes(code))) |->
        <<SP, SP, SP, SP>> \o Strip(SplitLines(ExpandEscapes(code))[i])]

\* the lines with the run put in after the first at of them
LinesWithRun(lines, at, code) ==
    SubSeq(lines, 1, at) \o CodeRun(code) \o SubSeq(lines, at + 1, Len(lines))

\* C13: -il (index, code) with an integer index splits the body at its
\* line breaks into n elements and gives the body whose elements are the
\* first i of them, the lines of the code in their order, and the rest,
\* where i is 0 for a negative index, n for an index above n and the index
\* otherwise; index 0 puts the code first, index 99 puts it last; the
\* modified flag is set.
C13_InsertAtIndex ==
    (pc = "chain" /\ step = 7 /\ ~st.raised
        /\ Given(args.insert_line) /\ IsInt(args.insert_line[1])) =>
        \E lines \in {SplitLines(IlInput.body)}, v \in {ParseInt(args.insert_line[1])},
           code \in {args.insert_line[2]} :
            /\ st.modified
            /\ v < 0 => SplitLines(st.body) = LinesWithRun(lines, 0, code)
            /\ v > Len(lines) =>
                  SplitLines(st.body) = LinesWithRun(lines, Len(lines), code)
            /\ (0 <= v /\ v <= Len(lines)) =>
                  SplitLines(st.body) = LinesWithRun(lines, v, code)
            /\ args.insert_line[1] = <<"0">> =>
                  SplitLines(st.body) = CodeRun(code) \o lines
            /\ args.insert_line[1] = <<"9", "9">> =>
                  SplitLines(st.body) = lines \o CodeRun(code)
            /\ args.insert_line[1] = <<"-", "1">> =>
                  SplitLines(st.body) = CodeRun(code) \o lines

\* index 99 and a code of two lines on a body of five elements
C13_Witness ==
    /\ pc = "chain" /\ step = 7
    /\ args.insert_line = <<<<"9", "9">>, <<"c", ESC, SP, "b">>>>
    /\ body0 = <<NL, NL, "k", NL, NL>>
    /\ Len(SplitLines(body0)) = 5
    /\ SplitLines(st.body) =
          <<<<>>, <<>>, <<"k">>, <<>>, <<>>,
            <<SP, SP, SP, SP, "c">>, <<SP, SP, SP, SP, "b">>>>

\* C14: when the index of -il is not an integer, apply_modifications still
\* returns (nothing is raised), one error is logged, and the body and the
\* modified flag returned are those the other configured primitives give,
\* in their order, without -il.
C14_MalformedIndexSkipped ==
    (pc = "returned" /\ Given(args.insert_line) /\ ~IsInt(args.insert_line[1])) =>
        /\ ~st.raised
        /\ st.errors = 1
        /\ st.body = IlInput.body
        /\ st.modified = IlInput.modified
        /\ st.body = Composed([args EXCEPT !.insert_line = <<>>], body0).body
        /\ st.modified = Composed([args EXCEPT !.insert_line = <<>>], body0).modified

\* index x: -rim and -dim have changed the body, -il has not
C14_Witness ==
    /\ pc = "returned"
    /\ args.insert_line = <<<<"x">>, <<"r">>>>
    /\ Given(args.replace_in_method) /\ Given(args.delete_in_method)
    /\ ~Given(args.remake) /\ ~Given(args.regex_replace)
    /\ ~Given(args.after_line) /\ ~Given(args.before_line)
    /\ body0 = <<NL, "k", "r", NL>>
    /\ st.body = <<NL, "c", NL>>
    /\ st.modified
    /\ st.errors = 1

\* what -al and -bl are given
AlInput ==
    DeleteInMethod(args,
      RegexReplace(args,
        ReplaceInMethod(args,
          Remake(args, ChainStart(body0)))))

BlInput == AfterLine(args, AlInput)

\* how often the anchor occurs in a line
Occurrences(line, anchor) == Len(SplitOn(line, anchor)) - 1

\* n times the code as a line of its own, indented by four spaces
RECURSIVE CodeLines(_, _)
CodeLines(code, n) ==
    IF n = 0 THEN <<>> ELSE <<<<SP, SP, SP, SP>> \o code>> \o CodeLines(code, n - 1)

\* the lines, each line that contains the anchor followed (after) or
\* preceded (before) by the code as a new line, once per occurrence
RECURSIVE LinesWithCode(_, _, _, _)
LinesWithCode(lines, anchor, code, after) ==
    IF Len(lines) = 0 THEN <<>>
    ELSE (IF after
          THEN <<lines[1]>> \o CodeLines(code, Occurrences(lines[1], anchor))
          ELSE CodeLines(code, Occurrences(lines[1], anchor)) \o <<lines[1]>>)
         \o LinesWithCode(Tail(lines), anchor, code, after)

\* C15: -al (anchor, code) on a body in which the anchor occurs gives the
\* lines of the body with, after every line that contains the anchor, the
\* code as a new line indented by four spaces, also when the anchor is only
\* the leading part of its line.
C15_InsertAfterLine ==
    (/\ pc = "chain" /\ step = 5
     /\ Given(args.after_line)
     /\ Contains(AlInput.body, args.after_line[1]))
        => SplitLines(st.body) =
              LinesWithCode(SplitLines(AlInput.body), args.after_line[1],
                            args.after_line[2], TRUE)

\* C16: -bl (anchor, code) on a body in which the anchor occurs gives the
\* lines of the body with, before every line that contains the anchor, the
\* code as a new line indented by four spaces.
C16_InsertBeforeLine ==
    (/\ pc = "chain" /\ step = 6
     /\ Given(args.before_line)
     /\ Contains(BlInput.body, args.before_line[1]))
        => SplitLines(st.body) =
              LinesWithCode(SplitLines(BlInput.body), args.before_line[1],
                            args.before_line[2], FALSE)

\* what -reg is given
RegInput == ReplaceInMethod(args, Remake(args, ChainStart(body0)))

\* the characters of s from position 1 are a match of the pattern
MatchesHere(elems, s) ==
    Len(s) >= Len(elems) /\ \A j \in 1..Len(elems) : s[j] \in elems[j]

\* the replacement written out for the captured characters cap
Expansion(repl, cap) ==
    [i \in 1..Len(repl) |->
        IF repl[i] = G1 THEN cap[1]
        ELSE IF repl[i] = G2 THEN cap[2]
        ELSE IF repl[i] = G3 THEN cap[3]
        ELSE repl[i]]

\* s read from the left: a match gives way to its expansion, any other
\* character is kept
RECURSIVE Substituted(_, _, _)
Substituted(elems, repl, s) ==
    IF Len(s) = 0 THEN <<>>
    ELSE IF MatchesHere(elems, s)
    THEN Expansion(repl, SubSeq(s, 1, Len(elems)))
         \o Substituted(elems, repl, SubSeq(s, Len(elems) + 1, Len(s)))
    ELSE <<s[1]>> \o Substituted(elems, repl, Tail(s))

\* C17: -reg (pattern, replacement) on a body in which the pattern has no
\* match gives the same body and leaves the modified flag as it was; on a
\* body in which it matches, the flag is set and every match, found from the
\* left, is replaced by the replacement in which each group reference stands
\* for the character that group captured in that match.
C17_RegexReplace ==
    (pc = "chain" /\ step = 3 /\ Given(args.regex_replace) /\ ~st.raised) =>
        \E elems \in {args.regex_replace[1].elems}, repl \in {args.regex_replace[2]},
           in \in {RegInput} :
            IF \A i \in 1..Len(in.body) : ~MatchesHere(elems, From(in.body, i))
            THEN st.body = in.body /\ st.modified = in.modified
            ELSE /\ st.modified
                 /\ st.body = Substituted(elems, repl, in.body)

\* (k)([kr]) -> \2c\1 on krk: the match kr becomes rck, the last k is kept
C17_Witness ==
    /\ pc = "chain" /\ step = 3
    /\ args.regex_replace =
          <<[elems |-> <<{"k"}, {"k", "r"}>>, wellformed |-> TRUE], <<G2, "c", G1>>>>
    /\ body0 = <<NL, "k", "r", "k", NL>>
    /\ st.body = <<NL, "r", "c", "k", "k", NL>>
    /\ st.modified

---------------------------------------------------------------------------
(* Properties of the command (Spec): the files, the exit status, the log *)

\* the file lies in directory d or in a directory below d
Below(f, d) ==
    \/ d = "dir" /\ f \in {"f1", "f2", "f3"}
    \/ d = "sub" /\ f = "f2"

\* the name of the file has s in it
NameHas(f, s) ==
    \E i \in 1..Len(FileName(f)) :
        /\ i + Len(s) - 1 <= Len(FileName(f))
        /\ \A j \in 1..Len(s) : FileName(f)[i + j - 1] = s[j]

\* the files the claim names for the root and the request of the run
Applicable ==
    IF root \in Files THEN {root}
    ELSE {f \in {"f1", "f2"} :
            /\ Below(f, root)
            /\ args.iname # <<>> => NameHas(f, args.iname)}

\* C18: the files the pipeline is applied to are the root itself when the
\* root is a file, whatever the filename filter and the extension, and, when
\* the root is a directory, the .smali files in it and below it whose name
\* contains the filename filter (if one is given), with or without the
\* recursive flag: no other file is handed to patch_file during the walk,
\* and when the walk returns each of them has been handed over once.
C18_FilesApplied ==
    (pc \in {"walking", "done"} /\ (root \in Files \/ root \in Dirs)) =>
        /\ Range(visited) \subseteq Applicable
        /\ \A i, j \in 1..Len(visited) : visited[i] = visited[j] => i = j
        /\ pc = "done" => Range(visited) = Applicable

\* without the recursive flag, the walk from the top directory with the
\* name filter B has skipped A.smali and A.txt and reached sub/B.smali
C18_Witness ==
    /\ pc = "done"
    /\ root = "dir"
    /\ ~args.recursive
    /\ args.iname = <<"B">>
    /\ visited = <<"f2">>
    /\ fstate["f2"] = "Rewritten"

\* the root path is missing: no path was given, or the path does not exist
RootMissing == root = "nopath" \/ (root \notin Files /\ root \notin Dirs)

\* C19: when the command has exited, its status is non-zero if no selector
\* was given or the root path is missing (no path argument, or a path that
\* does not exist), and 0 otherwise, also when no file had a match.
C19_ExitStatus ==
    pc = "exited" =>
        IF NoSelector(args) \/ RootMissing THEN exitCode # 0 ELSE exitCode = 0

\* the lines that are about one block or one file: the block found, the
\* block deleted, the index of -il rejected, the file saved, the file failed
PerFileLines ==
    {"Target Found", "Applying -dm", "Invalid line number", "Saved", "processing"}

\* C20: when the walk over an existing file or directory has returned,
\* after the last file was processed, the log of the run holds a line that
\* is not about a single block or file: the summary of the matched and
\* changed files; this holds in every run, also when a file failed.
C20_SummaryLogged ==
    (pc = "done" /\ (root \in Files \/ root \in Dirs)) =>
        \E l \in log : l.line \notin PerFileLines

---------------------------------------------------------------------------
(* Properties of the splice (SpecContent) *)

\* what the place of block m holds after the rewrite of a: nothing when the
\* block is deleted, header + new body + footer when its body was modified,
\* and the block itself when it fails a filter or nothing in it changes
OwnRewrite(a, s, m) ==
    IF ~PassesFilters(a, s, m) THEN FullBlock(s, m)
    ELSE IF a.delete_method THEN <<>>
    ELSE IF apply_modifications(a, Body(s, m)).modified
    THEN Header(s, m) \o apply_modifications(a, Body(s, m)).body \o Footer(s, m)
    ELSE FullBlock(s, m)

\* the text s in which the first j located blocks hold their own rewrite,
\* each at its own span [hs, fe)
RECURSIVE PatchedAtSpans(_, _, _, _)
PatchedAtSpans(a, s, ms, j) ==
    IF j = 0 THEN s
    ELSE PatchedAtSpans(a,
                        SubSeq(s, 1, ms[j].hs - 1) \o OwnRewrite(a, s, ms[j])
                            \o SubSeq(s, ms[j].fe, Len(s)),
                        ms, j - 1)

\* two queued pairs have the same original text, or the new text of an
\* earlier pair is the original text of a later one
AmbiguousPairs(reps) ==
    \E i, j \in 1..Len(reps) :
        i < j /\ (reps[i][1] = reps[j][1] \/ reps[i][2] = reps[j][1])

\* C21: when several blocks of a file are queued and some of them have the
\* same original text, or the new text of an earlier one is the original
\* text of a later one, applying the pairs in order to the first remaining
\* occurrence gives every block location its own rewrite once: the text
\* returned is the text given with each located block replaced, at its own
\* place, by its own new text.
C21_OrdinalSplice ==
    (pc = "processed" /\ ~outcome.raised /\ AmbiguousPairs(outcome.replacements)) =>
        outcome.content = PatchedAtSpans(args, content, outcome.matches,
                                         Len(outcome.matches))

\* C22: the blocks located in one pass are spans that follow one another
\* without overlap, in increasing order of their start; each consists of
\* header, body and footer in this order, its footer is a footer marker
\* line and no footer marker line begins in its body (the block ends at the
\* nearest footer after its header); so no located block lies in another.
C22_BlocksDisjoint ==
    pc = "processed" =>
        LET ms == outcome.matches
        IN  /\ \A i \in 1..Len(ms) :
                  /\ 1 <= ms[i].hs /\ ms[i].hs < ms[i].he
                  /\ ms[i].he <= ms[i].fs /\ ms[i].fs < ms[i].fe
                  /\ ms[i].fe <= Len(content) + 1
                  /\ FooterAt(content, ms[i].fs)
                  /\ \A p \in ms[i].he..(ms[i].fs - 1) : ~FooterAt(content, p)
            /\ \A i, j \in 1..Len(ms) : i < j => ms[i].fe <= ms[j].hs

\* two blocks are located, and the first holds the header line of a further
\* method that has no footer of its own
C22_Witness ==
    /\ pc = "processed"
    /\ Len(outcome.matches) = 2
    /\ \E p \in (outcome.matches[1].hs + 1)..(outcome.matches[1].fs - 1) :
           content[p] = DM /\ LineStart(content, p)

\* C26: for every text and request, the text process_content returns (each
\* queued block replaced at the first occurrence of its text) is the text
\* with each changed block replaced by its new text at the block's own
\* located span.
C26_SpliceAtSpans ==
    (pc = "processed" /\ ~outcome.raised) =>
        outcome.content = PatchedAtSpans(args, content, outcome.matches,
                                         Len(outcome.matches))

\* the pieces of s outside the spans of the selected blocks, in order: the
\* text before the first, between two neighbours, and after the last
RECURSIVE Outside(_, _, _, _, _)
Outside(s, ms, sel, j, from) ==
    IF j > Len(sel) THEN <<SubSeq(s, from, Len(s))>>
    ELSE <<SubSeq(s, from, ms[sel[j]].hs - 1)>>
         \o Outside(s, ms, sel, j + 1, ms[sel[j]].fe)

\* piece g stands in text t at position q
StandsAt(t, g, q) ==
    /\ q + Len(g) - 1 <= Len(t)
    /\ \A k \in 1..Len(g) : t[q + k - 1] = g[k]

\* from position p on, text t holds the pieces i, i+1, ... in this order
\* without overlap, the last of them at its end
RECURSIVE HoldsInOrder(_, _, _, _)
HoldsInOrder(t, pieces, i, p) ==
    IF i = Len(pieces)
    THEN /\ p <= Len(t) - Len(pieces[i]) + 1
         /\ StandsAt(t, pieces[i], Len(t) - Len(pieces[i]) + 1)
    ELSE \E q \in p..(Len(t) + 1) :
            /\ StandsAt(t, pieces[i], q)
            /\ HoldsInOrder(t, pieces, i + 1, q + Len(pieces[i]))

\* C27: whatever lies outside the spans of the blocks that passed the
\* selector (text between blocks, blocks of other methods, blocks a filter
\* rejected) is in the returned text as it was in the given one and in the
\* same order: the returned text begins with what precedes the first
\* selected block, ends with what follows the last, and holds what lies
\* between two selected blocks in between; with no block selected it is the
\* given text.
C27_FrameOutsideSelected ==
    (pc = "processed" /\ ~outcome.raised) =>
        /\ StandsAt(outcome.content,
                    Outside(content, outcome.matches, outcome.selected, 1, 1)[1], 1)
        /\ HoldsInOrder(outcome.content,
                        Outside(content, outcome.matches, outcome.selected, 1, 1),
                        1, 1)

\* C28: with -dm and a keyword or a return type, only blocks that pass
\* every configured filter are queued for deletion, and every located block
\* that fails a filter is still in the returned text, header through footer.
C28_FiltersGateDeletion ==
    (/\ pc = "processed"
     /\ args.delete_method
     /\ (Given(args.seek_keyword) \/ Given(args.return_type)))
        => \A i \in 1..Len(outcome.matches) :
              IF PassesFilters(args, content, outcome.matches[i])
              THEN i \in Range(outcome.selected)
              ELSE /\ i \notin Range(outcome.selected)
                   /\ Contains(outcome.content, FullBlock(content, outcome.matches[i]))

---------------------------------------------------------------------------
(* Properties of patch_file (Spec) *)

\* the file patch_file was last called for
LastVisited == visited[Len(visited)]

\* patch_file has read a file that is not empty and has returned without
\* calling process_content
Rejected ==
    /\ pc \in {"walking", "done"}
    /\ Len(visited) > 0
    /\ fault[LastVisited] # "read"
    /\ Len(content) > 0
    /\ outcome = NoOutcome

\* C23: a file is fast-rejected only when a method selector is given, its
\* text does not occur in the content and no keyword is given; for such a
\* file process_content locates no block and returns the content unmodified,
\* so with and without the fast-reject the file is not opened for writing,
\* ends in NoMatch and keeps its content.  With a keyword, every file that
\* was read goes through process_content.
C23_FastRejectPreserves ==
    /\ Rejected =>
          /\ Given(args.method) /\ ~Contains(content, args.method)
          /\ ~Given(args.seek_keyword)
          /\ process_content(args, content).matches = <<>>
          /\ ~process_content(args, content).modified
          /\ process_content(args, content).content = content
          /\ Save(process_content(args, content), content, fault[LastVisited], FALSE)
                = [state |-> fstate[LastVisited], text |-> disk[LastVisited],
                   opened_w |-> FALSE, saved |-> FALSE, errors |-> 0,
                   outcome |-> process_content(args, content)]
          /\ fstate[LastVisited] = "NoMatch"
          /\ disk[LastVisited] = content
    /\ (/\ pc \in {"walking", "done"} /\ Len(visited) > 0
        /\ fault[LastVisited] # "read" /\ Given(args.seek_keyword))
          => outcome = process_content(args, content)

\* a file that holds blocks of method a, and none of method b, was
\* fast-rejected under the selector b
C23_Witness ==
    /\ Rejected
    /\ args.method = <<"b">>
    /\ LastVisited = "f1"
    /\ Len(Matches([kind |-> "name", text |-> <<"a">>], content)) = 2

\* the number of invocations of walk_and_patch that have handed file f to
\* patch_file: the completed ones, and the current one if f was visited
Handed(f) ==
    IF f \notin Applicable THEN 0
    ELSE IF pc = "walking" /\ f \in Range(visited) THEN run + 1
    ELSE run

\* C25: in each invocation of walk_and_patch a file is read at most once
\* and opened for writing at most once, and only after it was read in that
\* invocation; a write that succeeds leaves the file with the whole content
\* process_content returned for what was read; and a file outside the
\* enumerated set is neither read nor written.
C25_ReadOnceWriteOnce ==
    \A f \in Files :
        /\ reads[f] = Handed(f)
        /\ writes[f] = Len(wrote[f])
        /\ \A i \in 1..Len(wrote[f]) :
              /\ 1 <= wrote[f][i].run /\ wrote[f][i].run <= Handed(f)
              /\ \A j \in 1..Len(wrote[f]) : i < j => wrote[f][i].run < wrote[f][j].run
              /\ wrote[f][i].new = process_content(args, wrote[f][i].old).content
              /\ (wrote[f][i].saved /\ i = Len(wrote[f]) /\ wrote[f][i].run = Handed(f))
                    => disk[f] = wrote[f][i].new
        /\ f \notin Applicable => disk[f] = disk0[f] /\ fstate[f] = "Unvisited"

\* the request that swaps two characters has run twice over the tree: each
\* of the two files was read twice and written twice, once per invocation
C25_Witness ==
    /\ pc = "done"
    /\ run = 2
    /\ root = "dir"
    /\ args.regex_replace = SwapRegex
    /\ reads["f1"] = 2 /\ Len(wrote["f1"]) = 2
    /\ reads["f2"] = 2 /\ Len(wrote["f2"]) = 2
    /\ reads["f3"] = 0

\* C29: a file whose processing ended in Failed (an exception while it was
\* read, while its blocks were located or transformed, or while it was
\* written) holds after the run what it held when the run began, and every
\* file that did not fail holds what patch_file alone makes of it.
C29_FailureLeavesIntact ==
    pc \in {"walking", "done"} =>
        \A f \in Range(visited) :
            IF fstate[f] = "Failed" THEN disk[f] = before[f]
            ELSE disk[f] = patch_file(args, before[f], "none", FALSE).text

\* C30: when the identical -dm request has run twice over the same files
\* and nothing failed, the second run finds no block that passes the
\* selector in any file, writes no file, and leaves every file with the
\* content it had after the first run.
C30_DeleteIdempotent ==
    (/\ pc = "done" /\ run = 2
     /\ args.delete_method
     /\ \A f \in Files : fault[f] = "none")
        => \A f \in Range(visited) :
              /\ Len(process_content(args, before[f]).selected) = 0
              /\ \A i \in 1..Len(wrote[f]) : wrote[f][i].run # 2
              /\ disk[f] = before[f]

---------------------------------------------------------------------------
(* Properties of one call of patch_file (SpecFile) *)

FinalStates == {"NoMatch", "Unchanged", "Rewritten", "Failed"}

\* the moves of the per-file state machine; a failure ends any state that
\* is not final
FileMoves ==
    { <<"Unvisited", "Scanned">>, <<"Scanned", "NoMatch">>, <<"Scanned", "Matched">>,
      <<"Matched", "Unchanged">>, <<"Matched", "Rewritten">>,
      <<"Unvisited", "Failed">>, <<"Scanned", "Failed">>, <<"Matched", "Failed">> }

\* C24: every file moves Unvisited -> Scanned -> NoMatch or Matched and
\* from Matched -> Unchanged or Rewritten (or to Failed); when patch_file
\* has returned the file is in one of the four final states, which no move
\* leaves; Rewritten is entered from Matched only; and the content of the
\* file on disk changes only in the move to Rewritten.
C24_FileStateMachine ==
    /\ [](pc = "returned" => fstate["f1"] \in FinalStates)
    /\ [][\A f \in Files :
            /\ fstate'[f] # fstate[f] => <<fstate[f], fstate'[f]>> \in FileMoves
            /\ disk'[f] # disk[f] => fstate'[f] = "Rewritten" /\ fstate[f] = "Matched"]_vars

=============================================================================
